---- MODULE Spec2Model ----
(***************************************************************************)
(* Rock-paper-scissors webcam game: the round state machine of the         *)
(* useGameLogic hook, the capture burst and live polling loop of the       *)
(* GameArena component, and the classifier adapter of useTeachableModel.   *)
(*                                                                         *)
(* Two specifications are given.  Spec is the application as GameArena     *)
(* wires it: the user acts only through the buttons that are rendered.     *)
(* SpecHook is the useGameLogic hook driven by a client that calls         *)
(* startRound, resolveRound and resetGame in any phase, with handleCapture *)
(* as the capture callback and no model loaded.                            *)
(***************************************************************************)
EXTENDS Integers, Sequences, FiniteSets, TLC

\* ---------------------------------------------------------------- bounds
MaxRounds == 2      \* rounds started or resolved before the model stops starting new ones
MaxTimers == 2      \* interval timers alive at the same time
MaxLoads == 2       \* loadModel calls in flight at the same time

\* ------------------------------------------------------ program constants
COUNT_START == 3    \* let count = 3
NUM_READINGS_ONE_SHORT == 5 - 1
NUM_READINGS == 5   \* for (let i = 0; i < 5; i++)
MIN_VOTES == 2      \* if (bestCount < 2) best = "idle"
THRESHOLD == 60     \* top.probability < 0.6, in percent

LABELS == <<"idle", "rock", "paper", "scisors">>
GameChoice == {"idle", "rock", "paper", "scisors"}
CHOICES == <<"rock", "paper", "scisors">>
GamePhase == {"waiting", "countdown", "capture", "result"}
GameResult == {"win", "lose", "draw", "null"}

\* ------------------------------------------------------------ useGameLogic
\* Math.floor(Math.random() * CHOICES.length) ranges over every index of CHOICES
getComputerChoiceAnyLabel == {LABELS[i] : i \in 1..Len(LABELS)}

getComputerChoice == {CHOICES[i] : i \in 1..Len(CHOICES)}

getResultSwapped(player, computer) ==
  IF player = "idle" THEN "lose"
  ELSE IF player = computer THEN "draw"
  ELSE IF \/ (player = "rock" /\ computer = "paper")
          \/ (player = "paper" /\ computer = "rock")
          \/ (player = "scisors" /\ computer = "paper")
       THEN "win"
       ELSE "lose"

getResult(player, computer) ==
  IF player = "idle" THEN "lose"
  ELSE IF player = computer THEN "draw"
  ELSE IF \/ (player = "rock" /\ computer = "scisors")
          \/ (player = "paper" /\ computer = "rock")
          \/ (player = "scisors" /\ computer = "paper")
       THEN "win"
       ELSE "lose"

\* ------------------------------------------------------- useTeachableModel
\* Raw classifier outputs: probabilities in percent for the labels in order,
\* or a failure of the inference (the catch branch of predict).
Dists == { <<70, 10, 10, 10>>, <<10, 70, 10, 10>>, <<10, 10, 70, 10>>,
           <<10, 10, 10, 70>>, <<10, 50, 30, 10>>, <<0, 60, 40, 0>>,
           <<0, 0, 50, 50>> }
RawOutputs == {[throws |-> TRUE, probs |-> <<0, 0, 0, 0>>]}
                \cup {[throws |-> FALSE, probs |-> d] : d \in Dists}

\* Every output over a few probability levels around the threshold, for the
\* specification that calls the classifier adapter directly.
ProbLevels == {0, 59, 60, 100}
AllRawOutputs == {[throws |-> TRUE, probs |-> <<0, 0, 0, 0>>]}
                   \cup {[throws |-> FALSE, probs |-> <<a, b, c, d>>] :
                            a \in ProbLevels, b \in ProbLevels,
                            c \in ProbLevels, d \in ProbLevels}

\* predict: [] without a model or when inference throws, else one entry per label
predict(model, labels, raw) ==
  IF ~model THEN <<>>
  ELSE IF raw.throws THEN <<>>
  ELSE [i \in 1..Len(labels) |->
          [className |-> labels[i],
           probability |-> IF i \in DOMAIN raw.probs THEN raw.probs[i] ELSE 0]]

\* predictions.reduce((a, b) => a.probability > b.probability ? a : b)
RECURSIVE reduceTop(_, _)
reduceTop(acc, rest) ==
  IF rest = <<>> THEN acc
  ELSE reduceTop(IF acc.probability > Head(rest).probability THEN acc ELSE Head(rest),
                 Tail(rest))

getTopPredictionNoThreshold(predictions) ==
  IF Len(predictions) = 0 THEN "idle"
  ELSE reduceTop(Head(predictions), Tail(predictions)).className

\* reduce of an empty array without an initial value throws a TypeError
getTopPredictionNoEmptyCheck(predictions) ==
  IF Len(predictions) = 0 THEN "TypeError"
  ELSE LET top == reduceTop(Head(predictions), Tail(predictions))
       IN IF top.probability < THRESHOLD THEN "idle" ELSE top.className

getTopPrediction(predictions) ==
  IF Len(predictions) = 0 THEN "idle"
  ELSE LET top == reduceTop(Head(predictions), Tail(predictions))
       IN IF top.probability < THRESHOLD THEN "idle" ELSE top.className

\* --------------------------------------------------- GameArena.handleCapture
\* counts[r] = (counts[r] || 0) + 1, the keys kept in insertion order
bumpCount(counts, r) ==
  IF \E i \in DOMAIN counts : counts[i].choice = r
  THEN [i \in DOMAIN counts |->
          IF counts[i].choice = r
          THEN [choice |-> r, count |-> counts[i].count + 1]
          ELSE counts[i]]
  ELSE Append(counts, [choice |-> r, count |-> 1])

RECURSIVE countReadings(_, _)
countReadings(readings, counts) ==
  IF readings = <<>> THEN counts
  ELSE countReadings(Tail(readings), bumpCount(counts, Head(readings)))

\* for (const [choice, count] of Object.entries(counts)) ...
RECURSIVE pickBestCountsIdle(_, _)
pickBestCountsIdle(entries, acc) ==
  IF entries = <<>> THEN acc
  ELSE LET e == Head(entries)
       IN pickBestCountsIdle(Tail(entries),
                   IF e.count > acc.bestCount
                   THEN [best |-> e.choice, bestCount |-> e.count]
                   ELSE acc)

RECURSIVE pickBestLastSeen(_, _)
pickBestLastSeen(entries, acc) ==
  IF entries = <<>> THEN acc
  ELSE LET e == Head(entries)
       IN pickBestLastSeen(Tail(entries),
                   IF e.choice # "idle" /\ e.count >= acc.bestCount
                   THEN [best |-> e.choice, bestCount |-> e.count]
                   ELSE acc)

RECURSIVE pickBest(_, _)
pickBest(entries, acc) ==
  IF entries = <<>> THEN acc
  ELSE LET e == Head(entries)
       IN pickBest(Tail(entries),
                   IF e.choice # "idle" /\ e.count > acc.bestCount
                   THEN [best |-> e.choice, bestCount |-> e.count]
                   ELSE acc)

majorityNoMinimum(readings) ==
  pickBest(countReadings(readings, <<>>), [best |-> "idle", bestCount |-> 0]).best

\* the move handleCapture passes to resolveRound for a full list of readings
majority(readings) ==
  LET b == pickBest(countReadings(readings, <<>>), [best |-> "idle", bestCount |-> 0])
  IN IF b.bestCount < MIN_VOTES THEN "idle" ELSE b.best


\* ------------------------------------------------------------------- state
VARIABLES
  phase, countdown, playerChoice, computerChoice, result, score, roundNumber,
  timerRef,        \* timerRef.current: NullRef, a live timer id, or DeadRef
  timers,          \* per interval timer: the count of its closure, or NoTimer
  captures,        \* handleCapture invocations in flight
  video,           \* webcamRef.current?.getVideo(): "none", "loading", "ready"
  liveChoice, pollpc,
  mounted, isLoading, isReady, error, modelInstance, metadataLabels, loads,
  tally,           \* observation: rounds started and outcomes assigned since the last reset
  lastOp,          \* observation: the handler that made the last step
  lastReadings,    \* observation: the readings of the burst resolved by the last step
  lastRaw          \* observation: the raw classifier output of the call that returned in the last step

gameVars == <<phase, countdown, playerChoice, computerChoice, result, score, roundNumber, tally>>
timerVars == <<timerRef, timers>>
arenaVars == <<captures, video, liveChoice, pollpc>>
modelVars == <<mounted, isLoading, isReady, error, modelInstance, metadataLabels, loads>>
vars == <<gameVars, timerVars, arenaVars, modelVars, lastOp, lastReadings, lastRaw>>

TimerIds == 1..MaxTimers
NoTimer == -1      \* no interval with this id
NullRef == 0       \* timerRef.current = null
DeadRef == -1      \* timerRef.current holds the id of a cleared interval
NoRaw == [throws |-> FALSE, probs |-> <<>>]   \* the last step returned no classification
NoTally == [started |-> 0, win |-> 0, lose |-> 0, draw |-> 0]

LiveTimers == {t \in TimerIds : timers[t] # NoTimer}
\* timers that have not reached zero yet
UnfiredTimers == {t \in TimerIds : timers[t] > 0}
\* rounds that are still going to be resolved
Pending == Len(captures) + Cardinality(UnfiredTimers)

InitGame ==
  /\ phase = "waiting"
  /\ countdown = COUNT_START
  /\ playerChoice = "idle"
  /\ computerChoice = "idle"
  /\ result = "null"
  /\ score = [player |-> 0, computer |-> 0]
  /\ roundNumber = 0
  /\ tally = NoTally
  /\ timerRef = NullRef
  /\ timers = [t \in TimerIds |-> NoTimer]

InitArena ==
  /\ captures = <<>>
  /\ video = "none"
  /\ liveChoice = "idle"
  /\ pollpc = "off"
  /\ lastOp = "init"
  /\ lastReadings = <<>>
  /\ lastRaw = NoRaw

InitModel ==
  /\ mounted = FALSE
  /\ isLoading = FALSE
  /\ isReady = FALSE
  /\ error = FALSE
  /\ modelInstance = FALSE
  /\ metadataLabels = <<>>
  /\ loads = <<>>

Init == InitGame /\ InitArena /\ InitModel

\* ------------------------------------------------------------ useGameLogic
\* setInterval returns an id that no live interval has
newTimer == CHOOSE t \in TimerIds : timers[t] = NoTimer /\ \A u \in TimerIds : u < t => timers[u] # NoTimer

startRoundClearsScore ==
  /\ phase' = "countdown"
  /\ result' = "null"
  /\ playerChoice' = "idle"
  /\ computerChoice' = "idle"
  /\ countdown' = COUNT_START
  /\ timers' = [timers EXCEPT ![newTimer] = COUNT_START]
  /\ timerRef' = newTimer
  /\ tally' = [tally EXCEPT !.started = @ + 1]
  /\ score' = [player |-> 0, computer |-> 0]
  /\ UNCHANGED roundNumber

startRoundKeepsOutcome ==
  /\ phase' = "countdown"
  /\ countdown' = COUNT_START
  /\ timers' = [timers EXCEPT ![newTimer] = COUNT_START]
  /\ timerRef' = newTimer
  /\ tally' = [tally EXCEPT !.started = @ + 1]
  /\ UNCHANGED <<result, playerChoice, computerChoice, score, roundNumber>>

startRound ==
  /\ phase' = "countdown"
  /\ result' = "null"
  /\ playerChoice' = "idle"
  /\ computerChoice' = "idle"
  /\ countdown' = COUNT_START
  /\ timers' = [timers EXCEPT ![newTimer] = COUNT_START]
  /\ timerRef' = newTimer
  /\ tally' = [tally EXCEPT !.started = @ + 1]
  /\ UNCHANGED <<score, roundNumber>>

resolveRoundElseLose(playerPick, compPick) ==
  LET roundResult == getResult(playerPick, compPick)
  IN /\ playerChoice' = playerPick
     /\ computerChoice' = compPick
     /\ result' = roundResult
     /\ phase' = "result"
     /\ roundNumber' = roundNumber + 1
     /\ tally' = [tally EXCEPT ![roundResult] = @ + 1]
     /\ score' = IF roundResult = "win"
                 THEN [score EXCEPT !.player = @ + 1]
                 ELSE [score EXCEPT !.computer = @ + 1]

resolveRoundSkipsDraw(playerPick, compPick) ==
  LET roundResult == getResult(playerPick, compPick)
  IN /\ playerChoice' = playerPick
     /\ computerChoice' = compPick
     /\ result' = roundResult
     /\ phase' = "result"
     /\ roundNumber' = IF roundResult = "draw" THEN roundNumber ELSE roundNumber + 1
     /\ tally' = [tally EXCEPT ![roundResult] = @ + 1]
     /\ score' = IF roundResult = "win"
                 THEN [score EXCEPT !.player = @ + 1]
                 ELSE IF roundResult = "lose"
                      THEN [score EXCEPT !.computer = @ + 1]
                      ELSE score

resolveRound(playerPick, compPick) ==
  LET roundResult == getResult(playerPick, compPick)
  IN /\ playerChoice' = playerPick
     /\ computerChoice' = compPick
     /\ result' = roundResult
     /\ phase' = "result"
     /\ roundNumber' = roundNumber + 1
     /\ tally' = [tally EXCEPT ![roundResult] = @ + 1]
     /\ score' = IF roundResult = "win"
                 THEN [score EXCEPT !.player = @ + 1]
                 ELSE IF roundResult = "lose"
                      THEN [score EXCEPT !.computer = @ + 1]
                      ELSE score

resetGameKeepsCountdown ==
  /\ phase' = "waiting"
  /\ countdown' = countdown
  /\ playerChoice' = "idle"
  /\ computerChoice' = "idle"
  /\ result' = "null"
  /\ score' = [player |-> 0, computer |-> 0]
  /\ roundNumber' = 0
  /\ tally' = NoTally
  /\ UNCHANGED timerVars

resetGameKeepsRoundNumber ==
  /\ phase' = "waiting"
  /\ countdown' = COUNT_START
  /\ playerChoice' = "idle"
  /\ computerChoice' = "idle"
  /\ result' = "null"
  /\ score' = [player |-> 0, computer |-> 0]
  /\ roundNumber' = roundNumber
  /\ tally' = NoTally
  /\ UNCHANGED timerVars

resetGame ==
  /\ phase' = "waiting"
  /\ countdown' = COUNT_START
  /\ playerChoice' = "idle"
  /\ computerChoice' = "idle"
  /\ result' = "null"
  /\ score' = [player |-> 0, computer |-> 0]
  /\ roundNumber' = 0
  /\ tally' = NoTally
  /\ UNCHANGED timerVars


\* ------------------------------------------------------ the interval timer
\* The synchronous part of handleCapture, run inside the tick that reaches
\* zero: without a video element the round is resolved at once with idle,
\* otherwise the first classification call of the burst is started.
handleCaptureAlwaysBurst ==
  /\ captures' = Append(captures, [pc |-> "classify", readings |-> <<>>, calls |-> 1])
  /\ phase' = "capture"
  /\ UNCHANGED <<playerChoice, computerChoice, result, score, roundNumber, tally>>

handleCaptureNeverStarts ==
  /\ phase' = "capture"
  /\ UNCHANGED <<captures, playerChoice, computerChoice, result, score, roundNumber, tally>>

handleCaptureSkipsCapturePhase ==
  /\ \E compPick \in getComputerChoice : resolveRound("idle", compPick)
  /\ UNCHANGED captures

handleCapture ==
  IF video = "none"
  THEN /\ \E compPick \in getComputerChoice : resolveRound("idle", compPick)
       /\ UNCHANGED captures
  ELSE /\ captures' = Append(captures, [pc |-> "classify", readings |-> <<>>, calls |-> 1])
       /\ phase' = "capture"
       /\ UNCHANGED <<playerChoice, computerChoice, result, score, roundNumber, tally>>

clearRefNoop(tm) == tm

\* clearInterval(timerRef.current): clears the interval the ref names, if it is live
clearRef(tm) ==
  IF timerRef \in TimerIds THEN [tm EXCEPT ![timerRef] = NoTimer] ELSE tm

\* One run of the setInterval callback of timer t.  count is only compared
\* with 0, so a count that has reached 0 is kept at 0.
TimerTick(t) ==
  /\ timers[t] # NoTimer
  /\ timers[t] = 0 => roundNumber + Pending < MaxRounds
  /\ LET count == IF timers[t] > 0 THEN timers[t] - 1 ELSE 0
     IN IF count > 0
        THEN /\ countdown' = count
             /\ timers' = [timers EXCEPT ![t] = count]
             /\ UNCHANGED <<phase, playerChoice, computerChoice, result, score,
                            roundNumber, tally, timerRef, captures>>
        ELSE /\ timers' = clearRef([timers EXCEPT ![t] = count])
             /\ timerRef' = IF timerRef = NullRef THEN NullRef ELSE DeadRef
             /\ handleCapture
             /\ UNCHANGED countdown
  /\ lastOp' = "tick"
  /\ lastReadings' = <<>>
  /\ lastRaw' = NoRaw
  /\ UNCHANGED <<video, liveChoice, pollpc, modelVars>>

\* ------------------------------------------------------- the capture burst
RemoveAt(s, i) == [j \in 1..(Len(s) - 1) |-> IF j < i THEN s[j] ELSE s[j + 1]]

\* await getTopPrediction(video) returns; readings.push(choice)
CaptureClassified(i) ==
  /\ i \in DOMAIN captures
  /\ captures[i].pc = "classify"
  /\ \E raw \in RawOutputs :
       LET choice == getTopPrediction(predict(modelInstance, metadataLabels, raw))
       IN /\ captures' = [captures EXCEPT ![i].readings = Append(@, choice),
                                          ![i].pc = "wait"]
          /\ lastRaw' = raw
  /\ lastOp' = "classified"
  /\ lastReadings' = <<>>
  /\ UNCHANGED <<gameVars, timerVars, video, liveChoice, pollpc, modelVars>>

\* the 100ms timeout elapses: next iteration, or the vote and resolveRound
CaptureTimeout(i) ==
  /\ i \in DOMAIN captures
  /\ captures[i].pc = "wait"
  /\ IF Len(captures[i].readings) < NUM_READINGS
     THEN /\ captures' = [captures EXCEPT ![i].pc = "classify", ![i].calls = @ + 1]
          /\ lastOp' = "nextReading"
          /\ lastReadings' = <<>>
          /\ lastRaw' = NoRaw
          /\ UNCHANGED gameVars
     ELSE /\ \E compPick \in getComputerChoice :
               resolveRound(majority(captures[i].readings), compPick)
          /\ captures' = RemoveAt(captures, i)
          /\ lastOp' = "burstResolved"
          /\ lastReadings' = captures[i].readings
          /\ lastRaw' = NoRaw
          /\ UNCHANGED countdown
  /\ UNCHANGED <<timerVars, video, liveChoice, pollpc, modelVars>>

\* ------------------------------------------------------- the frame source
\* WebcamView.startCamera: the stream is attached and frames become decodable
VideoReady ==
  /\ mounted
  /\ video = "loading"
  /\ video' = "ready"
  /\ lastOp' = "video"
  /\ lastReadings' = <<>>
  /\ lastRaw' = NoRaw
  /\ UNCHANGED <<gameVars, timerVars, captures, liveChoice, pollpc, modelVars>>

\* WebcamHandle.getVideo: HTMLVideoElement | null, as a client of the hook may see it
VideoChange ==
  /\ \E v \in {"none", "loading", "ready"} : v # video /\ video' = v
  /\ lastOp' = "video"
  /\ lastReadings' = <<>>
  /\ lastRaw' = NoRaw
  /\ UNCHANGED <<gameVars, timerVars, captures, liveChoice, pollpc, modelVars>>

\* -------------------------------------------------- the live polling loop
\* requestAnimationFrame(loop): classify when the frame is decodable
PollFrame ==
  /\ pollpc = "scheduled"
  /\ pollpc' = IF video = "ready" THEN "awaiting" ELSE "scheduled"
  /\ lastOp' = "pollFrame"
  /\ lastReadings' = <<>>
  /\ lastRaw' = NoRaw
  /\ UNCHANGED <<gameVars, timerVars, captures, video, liveChoice, modelVars>>

PollReturnSetsPlayerChoice ==
  /\ pollpc = "awaiting"
  /\ \E raw \in RawOutputs :
       /\ liveChoice' = getTopPrediction(predict(modelInstance, metadataLabels, raw))
       /\ lastRaw' = raw
  /\ playerChoice' = liveChoice'
  /\ pollpc' = "scheduled"
  /\ lastOp' = "pollReturn"
  /\ lastReadings' = <<>>
  /\ UNCHANGED <<phase, countdown, computerChoice, result, score, roundNumber, tally,
                 timerVars, captures, video, modelVars>>

\* getTopPrediction returns to the loop: setLiveChoice(choice), next frame
PollReturn ==
  /\ pollpc = "awaiting"
  /\ \E raw \in RawOutputs :
       /\ liveChoice' = getTopPrediction(predict(modelInstance, metadataLabels, raw))
       /\ lastRaw' = raw
  /\ pollpc' = "scheduled"
  /\ lastOp' = "pollReturn"
  /\ lastReadings' = <<>>
  /\ UNCHANGED <<gameVars, timerVars, captures, video, modelVars>>

\* useEffect(() => { if (!isReady) return; ... requestAnimationFrame(loop) },
\* [isReady, getTopPrediction]): run after every render that changed isReady
startPollingUnguarded(ready) == IF pollpc = "off" THEN "scheduled" ELSE pollpc

startPolling(ready) == IF ready /\ pollpc = "off" THEN "scheduled" ELSE pollpc

\* ------------------------------------------------------------- loadModel
loadModel ==
  IF modelInstance
  THEN /\ isReady' = TRUE
       /\ UNCHANGED <<isLoading, error, modelInstance, metadataLabels, loads>>
  ELSE /\ isLoading' = TRUE
       /\ error' = FALSE
       /\ loads' = Append(loads, "fetch")
       /\ UNCHANGED <<isReady, modelInstance, metadataLabels>>

\* useEffect(() => { loadModel(); }, [loadModel])
Mount ==
  /\ ~mounted
  /\ mounted' = TRUE
  /\ video' = "loading"
  /\ loadModel
  /\ pollpc' = startPolling(isReady')
  /\ lastOp' = "mount"
  /\ lastReadings' = <<>>
  /\ lastRaw' = NoRaw
  /\ UNCHANGED <<gameVars, timerVars, captures, liveChoice>>

\* metadataLabels = metadata.labels || []
LoadMetadata(i) ==
  /\ i \in DOMAIN loads
  /\ loads[i] = "fetch"
  /\ \E labels \in {LABELS, <<>>} : metadataLabels' = labels
  /\ loads' = [loads EXCEPT ![i] = "build"]
  /\ lastOp' = "loadMetadata"
  /\ lastReadings' = <<>>
  /\ lastRaw' = NoRaw
  /\ UNCHANGED <<gameVars, timerVars, arenaVars, mounted, isLoading, isReady, error,
                 modelInstance>>

\* modelInstance = await tf.loadLayersModel(...); setIsReady(true); finally
LoadDone(i) ==
  /\ i \in DOMAIN loads
  /\ loads[i] = "build"
  /\ modelInstance' = TRUE
  /\ isReady' = TRUE
  /\ isLoading' = FALSE
  /\ loads' = RemoveAt(loads, i)
  /\ pollpc' = startPolling(isReady')
  /\ lastOp' = "loadDone"
  /\ lastReadings' = <<>>
  /\ lastRaw' = NoRaw
  /\ UNCHANGED <<gameVars, timerVars, captures, video, liveChoice, mounted, error,
                 metadataLabels>>

\* any await of the try block rejects: catch, finally
LoadFail(i) ==
  /\ i \in DOMAIN loads
  /\ error' = TRUE
  /\ isLoading' = FALSE
  /\ loads' = RemoveAt(loads, i)
  /\ lastOp' = "loadFail"
  /\ lastReadings' = <<>>
  /\ lastRaw' = NoRaw
  /\ UNCHANGED <<gameVars, timerVars, arenaVars, mounted, isReady, modelInstance,
                 metadataLabels>>

\* ------------------------------------------ the buttons GameArena renders
PlayOffered == ~error /\ phase \in {"waiting", "result"}
PlayNeverDisabled == FALSE
PlayDisabled == isLoading \/ ~isReady
ResetOfferedAnyPhase == roundNumber > 0
ResetOffered == roundNumber > 0 /\ phase # "countdown" /\ phase # "capture"
RetryOffered == error

\* onClick={handlePlay}; a disabled button delivers no click
ClickPlay ==
  /\ mounted
  /\ PlayOffered
  /\ IF PlayDisabled
     THEN /\ lastOp' = "playDisabled"
          /\ UNCHANGED <<gameVars, timerVars>>
     ELSE /\ roundNumber < MaxRounds
          /\ startRound
          /\ lastOp' = "startRound"
  /\ lastReadings' = <<>>
  /\ lastRaw' = NoRaw
  /\ UNCHANGED <<arenaVars, modelVars>>

\* onClick={resetGame}
ClickReset ==
  /\ mounted
  /\ ResetOffered
  /\ resetGame
  /\ lastOp' = "resetGame"
  /\ lastReadings' = <<>>
  /\ lastRaw' = NoRaw
  /\ UNCHANGED <<arenaVars, modelVars>>

\* onClick={loadModel}
ClickRetry ==
  /\ mounted
  /\ RetryOffered
  /\ loadModel
  /\ pollpc' = startPolling(isReady')
  /\ lastOp' = "retry"
  /\ lastReadings' = <<>>
  /\ lastRaw' = NoRaw
  /\ UNCHANGED <<gameVars, timerVars, captures, video, liveChoice, mounted>>

Next ==
  \/ Mount
  \/ \E i \in DOMAIN loads : LoadMetadata(i)
  \/ \E i \in DOMAIN loads : LoadDone(i)
  \/ \E i \in DOMAIN loads : LoadFail(i)
  \/ ClickPlay
  \/ ClickReset
  \/ ClickRetry
  \/ \E t \in TimerIds : TimerTick(t)
  \/ \E i \in DOMAIN captures : CaptureClassified(i)
  \/ \E i \in DOMAIN captures : CaptureTimeout(i)
  \/ VideoReady
  \/ PollFrame
  \/ PollReturn

Spec == Init /\ [][Next]_vars

\* ------------------------------------- the hook called by an arbitrary client
HookStartRound ==
  /\ roundNumber + Pending < MaxRounds
  /\ LiveTimers # TimerIds
  /\ startRound
  /\ lastOp' = "startRound"
  /\ lastReadings' = <<>>
  /\ lastRaw' = NoRaw
  /\ UNCHANGED <<arenaVars, modelVars>>

HookResolveRound ==
  /\ roundNumber + Pending < MaxRounds
  /\ \E playerPick \in GameChoice, compPick \in getComputerChoice :
       resolveRound(playerPick, compPick)
  /\ lastOp' = "resolveRound"
  /\ lastReadings' = <<>>
  /\ lastRaw' = NoRaw
  /\ UNCHANGED <<countdown, timerVars, arenaVars, modelVars>>

HookResetGame ==
  /\ resetGame
  /\ lastOp' = "resetGame"
  /\ lastReadings' = <<>>
  /\ lastRaw' = NoRaw
  /\ UNCHANGED <<arenaVars, modelVars>>

NextHook ==
  \/ HookStartRound
  \/ HookResolveRound
  \/ HookResetGame
  \/ \E t \in TimerIds : TimerTick(t)
  \/ \E i \in DOMAIN captures : CaptureClassified(i)
  \/ \E i \in DOMAIN captures : CaptureTimeout(i)
  \/ VideoChange

SpecHook == Init /\ [][NextHook]_vars

\* ------------------------ useTeachableModel called by an arbitrary client
\* loadModel() called at any time, also while another call is in flight
HookLoadModel ==
  /\ Len(loads) < MaxLoads
  /\ loadModel
  /\ pollpc' = startPolling(isReady')
  /\ lastOp' = "loadModel"
  /\ lastReadings' = <<>>
  /\ lastRaw' = NoRaw
  /\ UNCHANGED <<gameVars, timerVars, captures, video, liveChoice, mounted>>

\* await getTopPrediction(video) on any frame; the label is kept in liveChoice
HookClassify ==
  /\ \E raw \in AllRawOutputs :
       /\ liveChoice' = getTopPrediction(predict(modelInstance, metadataLabels, raw))
       /\ lastRaw' = raw
  /\ lastOp' = "classify"
  /\ lastReadings' = <<>>
  /\ UNCHANGED <<gameVars, timerVars, captures, video, pollpc, modelVars>>

NextModel ==
  \/ HookLoadModel
  \/ \E i \in DOMAIN loads : LoadMetadata(i)
  \/ \E i \in DOMAIN loads : LoadDone(i)
  \/ \E i \in DOMAIN loads : LoadFail(i)
  \/ HookClassify
  \/ VideoChange
  \/ PollFrame
  \/ PollReturn

SpecModel == Init /\ [][NextModel]_vars

\* --------------------------------------------------------------- fairness
\* The browser runs every interval callback, settles every awaited promise
\* and fires every timeout.
Fairness ==
  /\ \A t \in TimerIds : WF_vars(TimerTick(t))
  /\ WF_vars(\E i \in DOMAIN captures : CaptureClassified(i))
  /\ WF_vars(\E i \in DOMAIN captures : CaptureTimeout(i))

\* ------------------ the hook called by a client that respects the phases
\* Rounds are started and the session is reset only where GameArena renders
\* the buttons, without a loaded model and with any frame source.
RoundStart ==
  /\ phase \in {"waiting", "result"}
  /\ HookStartRound

RoundReset ==
  /\ ResetOffered
  /\ HookResetGame

NextRound ==
  \/ RoundStart
  \/ RoundReset
  \/ \E t \in TimerIds : TimerTick(t)
  \/ \E i \in DOMAIN captures : CaptureClassified(i)
  \/ \E i \in DOMAIN captures : CaptureTimeout(i)
  \/ VideoChange

SpecRound == Init /\ [][NextRound]_vars

FairSpecRound == SpecRound /\ Fairness

TypeOK ==
  /\ phase \in GamePhase
  /\ countdown \in 1..COUNT_START
  /\ playerChoice \in GameChoice
  /\ computerChoice \in GameChoice
  /\ result \in GameResult
  /\ roundNumber \in 0..MaxRounds
  /\ score.player \in 0..MaxRounds /\ score.computer \in 0..MaxRounds
  /\ timerRef \in TimerIds \cup {NullRef, DeadRef}
  /\ Len(captures) <= MaxRounds
  /\ liveChoice \in GameChoice
  /\ Len(loads) <= MaxLoads


\* ================================================================ claims

\* C1: whatever the state resetGame is called in, the state it leaves has
\* phase waiting, score (0,0), round counter 0, no result, both choices idle
\* and countdown 3.
C1_ResetClearsSession ==
  lastOp = "resetGame" =>
    /\ phase = "waiting"
    /\ score = [player |-> 0, computer |-> 0]
    /\ roundNumber = 0
    /\ result = "null"
    /\ playerChoice = "idle"
    /\ computerChoice = "idle"
    /\ countdown = COUNT_START

\* resetGame has just run in the middle of a countdown that had reached 2
C1_Witness ==
  /\ lastOp = "resetGame"
  /\ phase = "waiting"
  /\ \E t \in TimerIds : timers[t] = 2

\* C2: after a reset made during the countdown the timer is cancelled: while
\* the phase is waiting no tick changes the countdown value, sets the phase
\* to capture or invokes the capture procedure.
C2_ResetCancelsTimer ==
  [][(phase = "waiting" /\ lastOp' = "tick") =>
       (countdown' = countdown /\ phase' = "waiting" /\ captures' = captures)]_vars

\* C3: startRound called while the phase is countdown or capture changes
\* nothing: phase, countdown value, result, choices, score, round counter,
\* timers and captures in flight stay as they are.
C3_StartRoundIgnoredMidRound ==
  [][(phase \in {"countdown", "capture"} /\ lastOp' = "startRound") =>
       UNCHANGED <<gameVars, timerVars, captures>>]_vars

\* C4: through the buttons of GameArena, play is taken only in phase waiting
\* or result without a load error, reset only with a round counter above 0 in
\* phase waiting or result; a step made while the phase is countdown or
\* capture is no play and no reset: it starts no timer, does not return to
\* waiting and does not clear the score or the round counter.
C4_NoUserActionMidRound ==
  [][/\ lastOp' \in {"startRound", "playDisabled"} =>
          (phase \in {"waiting", "result"} /\ ~error)
     /\ lastOp' = "resetGame" =>
          (roundNumber > 0 /\ phase \in {"waiting", "result"})
     /\ phase \in {"countdown", "capture"} =>
          /\ lastOp' \notin {"startRound", "playDisabled", "resetGame"}
          /\ phase' # "waiting"
          /\ \A t \in TimerIds : timers[t] = NoTimer => timers'[t] = NoTimer
          /\ roundNumber' >= roundNumber
          /\ score'.player >= score.player
          /\ score'.computer >= score.computer]_vars

\* a second round is in capture: only the phase keeps both buttons away
C4_Witness ==
  /\ phase = "capture"
  /\ roundNumber > 0
  /\ ~error /\ isReady /\ ~isLoading
  /\ ~PlayOffered
  /\ ~ResetOffered

\* C5: while the classifier is not ready (loading, or never loaded) a play
\* action changes nothing: the phase does not become countdown and no timer
\* is started; a round starts only with the classifier ready.
C5_PlayNeedsReadyModel ==
  [][/\ (isLoading \/ ~isReady) =>
          /\ phase' = phase
          /\ timers' = timers
          /\ lastOp' # "startRound"
          /\ lastOp' = "playDisabled" =>
               UNCHANGED <<gameVars, timerVars, arenaVars, modelVars>>
     /\ lastOp' = "startRound" => (isReady /\ ~isLoading)]_vars

\* play was pressed while the model was still loading
C5_Witness ==
  /\ lastOp = "playDisabled"
  /\ isLoading /\ ~isReady
  /\ phase = "waiting"
  /\ LiveTimers = {}


\* C6: a started round shows 3, then 2 after the first tick and 1 after the
\* second; the third tick clears the timer, sets the phase to capture and
\* invokes the capture procedure.  Each started round invokes the capture
\* procedure exactly once (one timer per countdown, none afterwards, one
\* capture in flight per capture phase), and the countdown value is always
\* 1, 2 or 3.
C6_CountdownSteps ==
  /\ [](/\ countdown \in {1, 2, 3}
        /\ phase = "countdown" => (Cardinality(LiveTimers) = 1 /\ captures = <<>>)
        /\ phase = "capture" => (LiveTimers = {} /\ Len(captures) = 1)
        /\ phase \in {"waiting", "result"} => (LiveTimers = {} /\ captures = <<>>))
  /\ [][/\ lastOp' = "startRound" => (countdown' = 3 /\ phase' = "countdown")
        /\ lastOp' = "tick" =>
             /\ phase = "countdown"
             /\ countdown = 3 => (countdown' = 2 /\ phase' = "countdown")
             /\ countdown = 2 => (countdown' = 1 /\ phase' = "countdown")
             /\ countdown = 1 =>
                  /\ countdown' = 1
                  /\ LiveTimers' = {}
                  /\ phase' = "capture"
                  /\ Len(captures') = Len(captures) + 1
        /\ Len(captures') > Len(captures) => (lastOp' = "tick" /\ countdown = 1)]_vars

\* the third tick has just handed over to the capture procedure
C6_Witness ==
  /\ lastOp = "tick"
  /\ phase = "capture"
  /\ countdown = 1
  /\ LiveTimers = {}
  /\ Len(captures) = 1 /\ captures[1].calls = 1

\* C7: the capture procedure makes exactly 5 classification calls, one after
\* another (a call is started only when the previous reading is stored and
\* its wait has elapsed), the phase becomes result only when all 5 readings
\* are in, and each capture calls resolveRound exactly once.
C7_FiveSequentialReadings ==
  /\ [](\A i \in DOMAIN captures :
          /\ captures[i].calls \in 1..5
          /\ captures[i].calls =
               Len(captures[i].readings) + (IF captures[i].pc = "classify" THEN 1 ELSE 0))
  /\ [][/\ (phase' = "result" /\ phase # "result") =>
             /\ lastOp' = "burstResolved"
             /\ phase = "capture"
             /\ Len(captures) = 1
             /\ captures[1].calls = 5
             /\ Len(captures[1].readings) = 5
             /\ captures[1].pc = "wait"
             /\ lastReadings' = captures[1].readings
        /\ roundNumber' # roundNumber =>
             \/ lastOp' = "resetGame"
             \/ /\ lastOp' = "burstResolved"
                /\ roundNumber' = roundNumber + 1
                /\ captures' = <<>>]_vars

\* a burst has just been resolved from its 5 readings
C7_Witness ==
  /\ lastOp = "burstResolved"
  /\ phase = "result"
  /\ Len(lastReadings) = 5
  /\ captures = <<>>

\* the number of occurrences of a label in a list of readings
Occ(l, s) == Cardinality({i \in DOMAIN s : s[i] = l})
NonIdle == {"rock", "paper", "scisors"}
MaxOcc(s) == CHOOSE n \in 0..Len(s) :
               /\ \A l \in NonIdle : Occ(l, s) <= n
               /\ \E l \in NonIdle : Occ(l, s) = n

\* C8: the move resolved from 5 readings is a non-idle label whose number of
\* occurrences is the largest among the non-idle labels when that number is
\* at least 2, and idle otherwise; [rock, rock, idle, paper, rock] gives rock.
C8_MajorityVote ==
  lastOp = "burstResolved" =>
    /\ Len(lastReadings) = 5
    /\ IF MaxOcc(lastReadings) >= 2
       THEN /\ playerChoice \in NonIdle
            /\ Occ(playerChoice, lastReadings) = MaxOcc(lastReadings)
       ELSE playerChoice = "idle"
    /\ lastReadings = <<"rock", "rock", "idle", "paper", "rock">> => playerChoice = "rock"

C8_Witness ==
  /\ lastOp = "burstResolved"
  /\ lastReadings = <<"rock", "rock", "idle", "paper", "rock">>
  /\ playerChoice = "rock"

\* C9: a burst in which no non-idle label occurs at least twice is resolved
\* with player move idle and outcome lose against a computer move that is
\* never idle, and adds 1 to the computer's score only.
C9_NoMajorityForfeits ==
  /\ [](lastOp = "burstResolved" /\ MaxOcc(lastReadings) < 2 =>
          /\ playerChoice = "idle"
          /\ result = "lose"
          /\ computerChoice \in NonIdle)
  /\ [][(lastOp' = "burstResolved" /\ MaxOcc(lastReadings') < 2) =>
          /\ score'.computer = score.computer + 1
          /\ score'.player = score.player]_vars

C9_Witness ==
  /\ lastOp = "burstResolved"
  /\ lastReadings = <<"rock", "paper", "idle", "idle", "idle">>
  /\ playerChoice = "idle"
  /\ computerChoice = "scisors"
  /\ result = "lose"
  /\ score.computer >= 1

Beats == {<<"rock", "scisors">>, <<"scisors", "paper">>, <<"paper", "rock">>}

\* C10: for non-idle moves the outcome is draw exactly when the moves are
\* equal, win exactly for (rock, scisors), (scisors, paper), (paper, rock),
\* and lose exactly for the three inverse pairs.
C10_CyclicBeats ==
  (phase = "result" /\ playerChoice \in NonIdle) =>
    /\ computerChoice \in NonIdle
    /\ result = "draw" <=> playerChoice = computerChoice
    /\ result = "win" <=> <<playerChoice, computerChoice>> \in Beats
    /\ result = "lose" <=> <<computerChoice, playerChoice>> \in Beats

C10_Witness ==
  /\ phase = "result"
  /\ playerChoice = "paper"
  /\ computerChoice = "rock"
  /\ result = "win"


\* outcomes assigned since the last reset
Resolutions == tally.win + tally.lose + tally.draw

\* C11: every resolution assigns one outcome of win, lose, draw and changes
\* the score by exactly that outcome: win adds 1 to the player only, lose
\* adds 1 to the computer only, draw adds nothing; so the score is always
\* (wins, losses) of the resolutions made since the last reset.
C11_ScoreFollowsOutcomes ==
  /\ [](/\ score.player = tally.win
        /\ score.computer = tally.lose)
  /\ [][Resolutions' = Resolutions + 1 =>
          /\ result' \in {"win", "lose", "draw"}
          /\ phase' = "result"
          /\ result' = "win" =>
               score' = [player |-> score.player + 1, computer |-> score.computer]
          /\ result' = "lose" =>
               score' = [player |-> score.player, computer |-> score.computer + 1]
          /\ result' = "draw" => score' = score]_vars

\* a win and then a draw: the draw has left the score at (1, 0)
C11_Witness ==
  /\ lastOp = "resolveRound"
  /\ result = "draw"
  /\ tally.win = 1 /\ tally.draw = 1 /\ tally.lose = 0
  /\ score = [player |-> 1, computer |-> 0]

\* C12: the round counter grows by exactly 1 at each resolution, whatever
\* the outcome, and by exactly 1 per started round: it equals the number of
\* resolutions since the last reset, and the number of rounds started less
\* the one still in countdown or capture; only a reset changes it otherwise.
C12_RoundCounter ==
  /\ [](/\ roundNumber = Resolutions
        /\ tally.started = roundNumber + (IF phase \in {"countdown", "capture"} THEN 1 ELSE 0))
  /\ [][/\ Resolutions' = Resolutions + 1 => roundNumber' = roundNumber + 1
        /\ roundNumber' # roundNumber =>
             \/ (lastOp' = "resetGame" /\ roundNumber' = 0)
             \/ (Resolutions' = Resolutions + 1 /\ roundNumber' = roundNumber + 1)]_vars

\* two rounds played, one of them a draw and one a forfeit
C12_Witness ==
  /\ lastOp = "burstResolved"
  /\ roundNumber = 2
  /\ tally.started = 2
  /\ tally.draw = 1 /\ tally.lose = 1
  /\ playerChoice = "idle"


\* C13: both components of the score are non-negative; no step other than
\* a resetGame step lowers either of them, and starting a round, a countdown
\* tick, a step of the capture sampling and a step of the live polling leave
\* the score as it is.
C13_ScoreMonotone ==
  /\ [](score.player >= 0 /\ score.computer >= 0)
  /\ [][/\ lastOp' # "resetGame" =>
             (score'.player >= score.player /\ score'.computer >= score.computer)
        /\ lastOp' \in {"startRound", "playDisabled", "tick", "classified",
                        "nextReading", "pollFrame", "pollReturn"} =>
             score' = score]_vars

\* a second round has been started with a score on the board
C13_Witness ==
  /\ lastOp = "startRound"
  /\ phase = "countdown"
  /\ score.player = 1
  /\ roundNumber = 1

\* C14: the computer's move of a resolution is rock, paper or scisors and
\* never idle, so whenever the phase is result the stored computer choice is
\* not idle.
C14_ComputerNeverIdle ==
  /\ [](phase = "result" => computerChoice \in {"rock", "paper", "scisors"})
  /\ [][Resolutions' = Resolutions + 1 =>
          computerChoice' \in {"rock", "paper", "scisors"}]_vars

\* the last entry of CHOICES has been drawn against a forfeiting player
C14_Witness ==
  /\ phase = "result"
  /\ computerChoice = "scisors"
  /\ playerChoice = "idle"
  /\ result = "lose"


\* the highest probability of a raw output
MaxProb(probs) == CHOOSE m \in {probs[i] : i \in DOMAIN probs} :
                    \A i \in DOMAIN probs : probs[i] <= m

\* the last step was a call of getTopPrediction that got a distribution
\* over the four labels from the model
Classified ==
  /\ lastOp \in {"classify", "pollReturn"}
  /\ modelInstance
  /\ metadataLabels = LABELS
  /\ ~lastRaw.throws

\* C15: getTopPrediction returns idle whenever the highest probability of
\* the distribution is below the threshold of 60 percent, whatever the label
\* that holds it; at or above the threshold it returns a label that holds
\* the highest probability.
C15_ThresholdToIdle ==
  Classified =>
    IF MaxProb(lastRaw.probs) < 60
    THEN liveChoice = "idle"
    ELSE \E i \in 1..4 : /\ LABELS[i] = liveChoice
                         /\ lastRaw.probs[i] = MaxProb(lastRaw.probs)

\* rock is the raw top label at 59 percent: the call has returned idle
C15_Witness ==
  /\ Classified
  /\ lastOp = "classify"
  /\ lastRaw.probs = <<0, 59, 0, 0>>
  /\ liveChoice = "idle"

\* C16: a classification call always returns a label and never an error:
\* without a loaded model, when the inference throws, or with an empty label
\* list it returns idle, and the polling loop that awaited it goes on.
C16_ClassifyNeverFails ==
  /\ liveChoice \in GameChoice
  /\ (/\ lastOp \in {"classify", "pollReturn"}
      /\ (~modelInstance \/ lastRaw.throws \/ metadataLabels = <<>>))
       => liveChoice = "idle"
  /\ lastOp = "pollReturn" => pollpc = "scheduled"

\* the inference has thrown inside a call of the polling loop of a loaded model
C16_Witness ==
  /\ lastOp = "pollReturn"
  /\ modelInstance /\ metadataLabels = LABELS
  /\ lastRaw.throws
  /\ liveChoice = "idle"
  /\ pollpc = "scheduled"


\* a step of an interval callback that reached zero and invoked the capture
\* procedure: a tick that is not the decrement of a count above 1
CaptureInvoked ==
  /\ lastOp' = "tick"
  /\ ~\E t \in TimerIds : timers[t] > 1 /\ timers'[t] = timers[t] - 1

\* C17: when no video element is available as the capture procedure starts,
\* the round is resolved in that same step with player move idle: outcome
\* lose, 1 more for the computer, round counter 1 higher, phase result, and
\* no classification call or wait is started.
C17_NoVideoForfeitsAtOnce ==
  [][(CaptureInvoked /\ video = "none") =>
       /\ phase' = "result"
       /\ playerChoice' = "idle"
       /\ result' = "lose"
       /\ computerChoice' \in {"rock", "paper", "scisors"}
       /\ score' = [player |-> score.player, computer |-> score.computer + 1]
       /\ roundNumber' = roundNumber + 1
       /\ captures' = captures]_vars

\* the third tick came without a video element: resolved with no burst
C17_Witness ==
  /\ lastOp = "tick"
  /\ video = "none"
  /\ phase = "result"
  /\ playerChoice = "idle"
  /\ result = "lose"
  /\ roundNumber = 1
  /\ captures = <<>>
  /\ LiveTimers = {}

\* C18: a started round reaches the result phase: with interval callbacks,
\* classification calls and timeouts that keep running, every state in
\* countdown or capture is followed by a state in phase result with an
\* outcome of win, lose or draw, also without a loaded model and without a
\* video element.
C18_RoundReachesResult ==
  (phase \in {"countdown", "capture"})
    ~> (phase = "result" /\ result \in {"win", "lose", "draw"})

\* a burst came to its result without a loaded model
C18_Witness ==
  /\ lastOp = "burstResolved"
  /\ ~modelInstance
  /\ phase = "result"
  /\ result = "lose"
  /\ lastReadings = <<"idle", "idle", "idle", "idle", "idle">>


\* the position of the first occurrence of a label in a list of readings
FirstSeen(l, s) == CHOOSE i \in DOMAIN s : s[i] = l /\ \A j \in 1..(i - 1) : s[j] # l
\* the non-idle labels with the highest count
TopLabels(s) == {l \in NonIdle : Occ(l, s) = MaxOcc(s)}

\* C19: when two non-idle labels share the highest count of at least 2, the
\* resolved move is the one of them that occurs first in the readings:
\* [paper, rock, rock, paper, idle] gives paper and
\* [rock, paper, paper, rock, idle] gives rock.
C19_TieFirstSeen ==
  (lastOp = "burstResolved" /\ MaxOcc(lastReadings) >= 2) =>
    /\ playerChoice \in TopLabels(lastReadings)
    /\ \A l \in TopLabels(lastReadings) :
         FirstSeen(playerChoice, lastReadings) <= FirstSeen(l, lastReadings)
    /\ lastReadings = <<"paper", "rock", "rock", "paper", "idle">> => playerChoice = "paper"
    /\ lastReadings = <<"rock", "paper", "paper", "rock", "idle">> => playerChoice = "rock"

C19_Witness ==
  /\ lastOp = "burstResolved"
  /\ lastReadings = <<"paper", "rock", "rock", "paper", "idle">>
  /\ playerChoice = "paper"


\* a step in which the polling loop starts a classification call
PollCallStarts == pollpc # "awaiting" /\ pollpc' = "awaiting"

\* C20 as stated: the polling loop starts classification calls only while
\* the classifier is ready and the phase is not result.
C20_NoPollingInResult ==
  [][PollCallStarts => (isReady /\ phase # "result")]_vars

\* C20 as amended: the polling loop starts classification calls only while
\* the classifier is ready and the frame is decodable, in whatever phase.
C20_PollingNeedsReadyModel ==
  [][PollCallStarts =>
       (isReady /\ modelInstance /\ video = "ready" /\ lastOp' = "pollFrame")]_vars

\* the loop has started a call while a result is shown
C20_Witness ==
  /\ lastOp = "pollFrame"
  /\ pollpc = "awaiting"
  /\ phase = "result"
  /\ isReady


\* a step of the polling loop
PollStep == lastOp' \in {"pollFrame", "pollReturn"}

\* C21: a polling step changes only the live label (and the loop's own
\* position): it leaves phase, countdown, result, both choices, score, round
\* counter and the bursts in flight unchanged; and however polling steps
\* interleave with a burst, the move the burst resolves with is the vote over
\* the 5 labels returned to the burst.
C21_PollingIsCosmetic ==
  /\ [][PollStep => UNCHANGED <<phase, countdown, result, playerChoice, computerChoice,
                                score, roundNumber, captures, timers, timerRef>>]_vars
  /\ [](lastOp = "burstResolved" =>
          /\ Len(lastReadings) = NUM_READINGS
          /\ playerChoice = majority(lastReadings))

\* a polling classification has returned in the middle of a burst, with a
\* label that differs from the burst's first reading
C21_Witness ==
  /\ lastOp = "pollReturn"
  /\ phase = "capture"
  /\ \E i \in DOMAIN captures :
       /\ Len(captures[i].readings) \in 1..(NUM_READINGS - 1)
       /\ captures[i].readings[1] # liveChoice
       /\ captures[i].readings[1] # "idle"
       /\ liveChoice # "idle"


\* C22: at capture time a video element whose frame is not decodable is
\* handled like an absent one: the round is resolved at once with idle and
\* no classification burst is started.
C22_UndecodableFrameForfeits ==
  [][(CaptureInvoked /\ video = "loading") =>
       (phase' = "result" /\ playerChoice' = "idle" /\ captures' = captures)]_vars


\* a step in which a call of loadModel runs its synchronous part
LoadModelCalled == lastOp' \in {"loadModel", "mount", "retry"}

\* C23: loading is init-once under every interleaving of loadModel calls: a
\* call made while a load is in flight starts no second fetch and no build
\* completes once the model is built; ready is never reported before a load
\* has completed; a call made after a successful load starts no load and
\* reports ready at once.
C23_LoadInitOnce ==
  /\ [](isReady => modelInstance)
  /\ [][(LoadModelCalled /\ modelInstance) => (loads' = loads /\ isReady')]_vars
  /\ [][(LoadModelCalled /\ loads # <<>>) => loads' = loads]_vars
  /\ [][lastOp' = "loadDone" => ~modelInstance]_vars


\* C24: while the phase is waiting the round counter is 0 and the score is
\* (0,0); after the session start the phase becomes waiting only by a reset.
C24_WaitingIsFresh ==
  /\ [](phase = "waiting" =>
          (roundNumber = 0 /\ score = [player |-> 0, computer |-> 0]))
  /\ [][(phase # "waiting" /\ phase' = "waiting") => lastOp' = "resetGame"]_vars

\* a reset has returned the session to waiting after a countdown had run to
\* zero and its round had been resolved
C24_Witness ==
  /\ lastOp = "resetGame"
  /\ phase = "waiting"
  /\ timerRef = DeadRef
  /\ Pending = 0
  /\ roundNumber = 0


\* C25: the stored outcome is consistent with the phase: the result is win,
\* lose or draw exactly when the phase is result, and in waiting, countdown
\* and capture the result is null and both choices are idle.
C25_OutcomeMatchesPhase ==
  /\ (result \in {"win", "lose", "draw"}) <=> (phase = "result")
  /\ phase \in {"waiting", "countdown", "capture"} =>
       (result = "null" /\ playerChoice = "idle" /\ computerChoice = "idle")


\* a new round has been started after a resolved one and the outcome and the
\* moves of the previous round are cleared
C25_Witness ==
  /\ lastOp = "startRound"
  /\ phase = "countdown"
  /\ roundNumber >= 1
  /\ tally.win + tally.lose >= 1
  /\ result = "null"
  /\ playerChoice = "idle"


\* C26: within a round the phases follow the fixed order: the phase becomes
\* capture only from countdown, by the tick that reaches zero; it becomes
\* result only from capture, by the resolveRound that ends the burst; it
\* becomes countdown only from waiting or result; and while the phase is
\* waiting or result no timer tick and no resolveRound changes the game state.
C26_PhaseOrder ==
  [][/\ (phase # "capture" /\ phase' = "capture") =>
          (phase = "countdown" /\ CaptureInvoked)
     /\ (phase # "result" /\ phase' = "result") =>
          (phase = "capture" /\ lastOp' = "burstResolved")
     /\ (phase # "countdown" /\ phase' = "countdown") =>
          (phase \in {"waiting", "result"} /\ lastOp' = "startRound")
     /\ (phase \in {"waiting", "result"} /\ lastOp' \in {"tick", "burstResolved", "resolveRound"}) =>
          UNCHANGED <<phase, countdown, result, playerChoice, computerChoice, score,
                      roundNumber>>]_vars

\* the second round of a session has gone from result through countdown and
\* capture to result again
C26_Witness ==
  /\ lastOp = "burstResolved"
  /\ phase = "result"
  /\ tally.started = 2
  /\ roundNumber = 2
  /\ Pending = 0

====
